---- MODULE Spec2Model ----
(***************************************************************************)
(* Layered BSDF core of OSPRay (ThinDielectric leaf, MicrofacetSheenLayer  *)
(* combinator) as a state machine over a per-shading-point arena, with the *)
(* StructuredVolume commit and voxel range and the Spheres geometry, each  *)
(* under a specification of its own.                                       *)
(*                                                                         *)
(* Floats are modelled as exact extended rationals <<n, d>>: d > 0 is the  *)
(* finite value n/d in lowest terms, <<1,0>> is +inf, <<-1,0>> is -inf and *)
(* <<0,0>> is NaN.  0*inf and inf-inf give NaN, rcp(0) gives +inf, and     *)
(* every ordered comparison with NaN is false, as in IEEE arithmetic.      *)
(* A square root that is not rational is rounded down to one decimal.      *)
(***************************************************************************)
EXTENDS Integers, Sequences, FiniteSets, TLC

VARIABLES
  arena,       \* the BSDF nodes of the shading context's arena, by index
  res,         \* the outstanding BSDF call with its arguments and result
  remap,       \* the layer's sample remap carried out in binary floating point
  volume,      \* the StructuredVolume object and its ISPC-side equivalent
  parallelFor, \* computeVoxelRange: the call and its parallel loop
  source,      \* computeVoxelRange: the voxels handed in
  voxelRange,  \* computeVoxelRange: the volume's voxelRange
  workers,     \* computeVoxelRange: the parallel loop's iterations
  mutex,       \* computeVoxelRange: the holder of the mutex
  ray,         \* Spheres: the ray of the active lane
  material     \* Spheres: the outstanding getMaterialID call

bsdfVars == <<arena, res>>

floatVars == <<remap>>

volumeVars == <<volume>>

rangeVars == <<parallelFor, source, voxelRange, workers, mutex>>

spheresVars == <<ray>>

materialVars == <<material>>

vars == <<bsdfVars, floatVars, volumeVars, rangeVars, spheresVars, materialVars>>

(***************************************************************************)
(* Bounds of the model.                                                    *)
(***************************************************************************)
MaxNodes == 2

\* binary floating point is scaled down to MantissaBits significant bits (the
\* code's float has 24), over the binades 2^-1 .. 2^-(1 + MaxBinade) below 1
MantissaBits == 3

MaxBinade == 3

\* commit calls made on one volume
MaxCommits == 3

\* computeVoxelRange: voxels handed in at most, and the block of one loop
\* iteration (1000000 voxels in the code)
MaxCount == 5

blockSize == 2

\* width in bits of the model's int32; int64 has twice as many
IntBits == 10

(***************************************************************************)
(* Extended rational arithmetic (the float operations the code uses).      *)
(***************************************************************************)
IAbs(n) == IF n < 0 THEN -n ELSE n

ISign(n) == IF n < 0 THEN -1 ELSE IF n > 0 THEN 1 ELSE 0

RECURSIVE GCD(_, _)
GCD(a, b) == IF b = 0 THEN a ELSE GCD(b, a % b)

Q(n, d) ==
  IF d = 0 THEN <<ISign(n), 0>>
  ELSE LET g == GCD(IAbs(n), IAbs(d))
           s == IF d < 0 THEN -1 ELSE 1
       IN  <<(s * n) \div g, (s * d) \div g>>

Zero == <<0, 1>>

One == <<1, 1>>

inf == <<1, 0>>

NaN == <<0, 0>>

IsNaN(a) == a = NaN

mul(a, b) ==
  LET g1 == GCD(IAbs(a[1]), b[2])
      g2 == GCD(IAbs(b[1]), a[2])
      h1 == IF g1 = 0 THEN 1 ELSE g1
      h2 == IF g2 = 0 THEN 1 ELSE g2
  IN  Q((a[1] \div h1) * (b[1] \div h2), (a[2] \div h2) * (b[2] \div h1))

add(a, b) ==
  IF a[2] = 0 /\ b[2] = 0
  THEN (IF a = b THEN a ELSE NaN)
  ELSE LET g == GCD(a[2], b[2])
           h == IF g = 0 THEN 1 ELSE g
       IN  Q(a[1] * (b[2] \div h) + b[1] * (a[2] \div h), (a[2] \div h) * b[2])

negf(a) == <<-a[1], a[2]>>

sub(a, b) == add(a, negf(b))

rcp(a) == Q(a[2], a[1])

lt(a, b) == ~IsNaN(a) /\ ~IsNaN(b) /\ a # b /\ sub(a, b)[1] < 0

le(a, b) == ~IsNaN(a) /\ ~IsNaN(b) /\ (a = b \/ sub(a, b)[1] < 0)

min(a, b) == IF lt(a, b) THEN a ELSE b

max(a, b) == IF lt(b, a) THEN a ELSE b

abs(a) == <<IAbs(a[1]), a[2]>>

sqr(a) == mul(a, a)

RECURSIVE ISqrtIn(_, _, _)
ISqrtIn(x, lo, hi) ==
  IF lo >= hi THEN lo
  ELSE LET mid == (lo + hi + 1) \div 2
       IN  IF mid * mid <= x THEN ISqrtIn(x, mid, hi) ELSE ISqrtIn(x, lo, mid - 1)

ISqrt(x) == ISqrtIn(x, 0, IF x < 46340 THEN x ELSE 46340)

sqrt(a) ==
  IF IsNaN(a) \/ a[1] < 0 THEN NaN
  ELSE IF a[2] = 0 THEN inf
  ELSE LET rn == ISqrt(a[1])
           rd == ISqrt(a[2])
       IN  IF rn * rn = a[1] /\ rd * rd = a[2]
           THEN Q(rn, rd)
           ELSE Q(ISqrt((a[1] * 100) \div a[2]), 10)

expf(x) ==
  IF IsNaN(x) THEN NaN
  ELSE IF x = inf THEN inf
  ELSE IF x[2] = 0 THEN Zero
  ELSE LET t == add(add(One, abs(x)), mul(Q(1, 2), sqr(x)))
       IN  IF x[1] <= 0 THEN rcp(t) ELSE t

(***************************************************************************)
(* Binary floating point with MantissaBits significant bits and round to   *)
(* nearest, ties to even, as the float operations of the code round: every *)
(* operation is the exact one followed by fl.  No overflow or underflow    *)
(* happens on the values used.                                             *)
(***************************************************************************)
RECURSIVE Pow2(_)
Pow2(k) == IF k <= 0 THEN 1 ELSE 2 * Pow2(k - 1)

\* n/d rounded to the nearest integer, ties to even (n >= 0, d > 0)
RoundHalfEven(n, d) ==
  IF 2 * (n % d) < d THEN n \div d
  ELSE IF 2 * (n % d) > d THEN (n \div d) + 1
  ELSE IF (n \div d) % 2 = 0 THEN n \div d
  ELSE (n \div d) + 1

\* the least k with n * 2^k / d >= 2^(MantissaBits - 1)
RECURSIVE flUp(_, _, _)
flUp(n, d, k) == IF n * Pow2(k) >= Pow2(MantissaBits - 1) * d THEN k ELSE flUp(n, d, k + 1)

\* the least k with n / (d * 2^k) < 2^MantissaBits
RECURSIVE flDown(_, _, _)
flDown(n, d, k) == IF n < Pow2(MantissaBits) * d * Pow2(k) THEN k ELSE flDown(n, d, k + 1)

flMagnitude(n, d) ==
  IF n >= Pow2(MantissaBits - 1) * d
  THEN Q(RoundHalfEven(n, d * Pow2(flDown(n, d, 0))) * Pow2(flDown(n, d, 0)), 1)
  ELSE Q(RoundHalfEven(n * Pow2(flUp(n, d, 0)), d), Pow2(flUp(n, d, 0)))

fl(a) ==
  IF a[2] = 0 \/ a[1] = 0 THEN a
  ELSE IF a[1] < 0 THEN negf(flMagnitude(-a[1], a[2]))
  ELSE flMagnitude(a[1], a[2])

fsub(a, b) == fl(sub(a, b))

fmul(a, b) == fl(mul(a, b))

\* the reciprocal, taken as correctly rounded
frcp(a) == fl(rcp(a))

(***************************************************************************)
(* vec3f: directions <<x, y, z>> and spectral triples <<r, g, b>>.         *)
(***************************************************************************)
make_vec3f(a) == <<a, a, a>>

vmul(v, a) == <<mul(v[1], a), mul(v[2], a), mul(v[3], a)>>

vadd(v, w) == <<add(v[1], w[1]), add(v[2], w[2]), add(v[3], w[3])>>

vexpf(v) == <<expf(v[1]), expf(v[2]), expf(v[3])>>

neg(v) == <<negf(v[1]), negf(v[2]), negf(v[3])>>

dot(v, w) == add(add(mul(v[1], w[1]), mul(v[2], w[2])), mul(v[3], w[3]))

reduce_max(v) == max(max(v[1], v[2]), v[3])

lerp(f, a, b) == vadd(vmul(a, sub(One, f)), vmul(b, f))

\* reflect(v, n, cosTheta) = 2*cosTheta*n - v, with the caller's cosTheta
reflect(v, n, cosTheta) == vadd(vmul(n, mul(Q(2, 1), cosTheta)), neg(v))

(***************************************************************************)
(* The shading frame is fixed: tangent x, bitangent y, normal z.           *)
(***************************************************************************)
getN == <<Zero, Zero, One>>

getFrame(v) == v

(***************************************************************************)
(* BSDF lobe types: a bitmask, kept as the set of its bits.                *)
(***************************************************************************)
BSDF_SPECULAR_REFLECTION == {"specular_reflection"}

BSDF_DIFFUSE_REFLECTION == {"diffuse_reflection"}

BSDF_SPECULAR_TRANSMISSION == {"specular_transmission"}

BSDF_DIFFUSE_TRANSMISSION == {"diffuse_transmission"}

BSDF_SPECULAR == BSDF_SPECULAR_REFLECTION \cup BSDF_SPECULAR_TRANSMISSION

BSDF_NONE == {}

make_BSDF_EvalRes_zero == [value |-> make_vec3f(Zero), pdf |-> Zero]

make_BSDF_SampleRes_zero ==
  [wi |-> make_vec3f(Zero), weight |-> make_vec3f(Zero), pdf |-> Zero, type |-> BSDF_NONE]

(***************************************************************************)
(* Sampling helpers and constants.  pi is the rational 22/7.               *)
(***************************************************************************)
one_over_pi == Q(7, 22)

uniformSampleHemispherePDF == Q(7, 44)

\* cos(2 pi x) and sin(2 pi x) on the azimuths the sample grid uses
cos2pi(x) == IF x = Zero THEN One ELSE IF x = Q(1, 2) THEN negf(One) ELSE NaN

sin2pi(x) == IF x = Zero \/ x = Q(1, 2) THEN Zero ELSE NaN

cos2sin(c) == sqrt(sub(One, sqr(c)))

\* uniformSampleHemisphere(s): phi = 2 pi s.x, cosTheta = s.y
uniformSampleHemisphere(s) ==
  LET sinTheta == cos2sin(s[2])
  IN  <<mul(cos2pi(s[1]), sinTheta), mul(sin2pi(s[1]), sinTheta), s[2]>>

(***************************************************************************)
(* Energy-compensation table of the sheen coat (directional albedo in      *)
(* [0,1], larger towards grazing angles), a step lookup over cosTheta.     *)
(***************************************************************************)
MicrofacetSheenAlbedoTable_eval(cosTheta, roughness) ==
  IF IsNaN(cosTheta) THEN NaN
  ELSE IF le(One, cosTheta) THEN Zero
  ELSE IF le(Q(4, 5), cosTheta) THEN roughness
  ELSE One

(***************************************************************************)
(* Sheen microfacet distribution: D = (2 + 1/alpha) sin^(1/alpha) / 2pi    *)
(* for 1/alpha = 4, taken on cos^2(thetaH); G2 = 1/(1 + L(o) + L(i)) with  *)
(* a rational Lambda, zero when a direction is on the wrong side of wh.    *)
(***************************************************************************)
roughnessToAlpha(roughness) == max(sqr(roughness), Q(1, 1000))

make_SheenDistribution(alpha) == [alpha |-> alpha]

SheenDistribution_eval(self, sqrCosThetaH) ==
  LET invAlpha == rcp(self.alpha)
      sqrSinThetaH == sub(One, sqrCosThetaH)
  IN  mul(mul(add(Q(2, 1), invAlpha), sqr(sqrSinThetaH)), uniformSampleHemispherePDF)

evalLambda(self, cosTheta) == mul(self.alpha, mul(sub(One, cosTheta), rcp(cosTheta)))

evalG2(self, cosThetaO, cosThetaI, cosThetaOH, cosThetaIH) ==
  IF le(mul(cosThetaO, cosThetaOH), Zero) \/ le(mul(cosThetaI, cosThetaIH), Zero)
  THEN Zero
  ELSE rcp(add(add(One, evalLambda(self, cosThetaO)), evalLambda(self, cosThetaI)))

(***************************************************************************)
(* Dielectric Fresnel term: returns F and the transmitted cosine.          *)
(***************************************************************************)
fresnelDielectric(cosI, cosT, eta) ==
  LET Rper == mul(sub(mul(eta, cosI), cosT), rcp(add(mul(eta, cosI), cosT)))
      Rpar == mul(sub(cosI, mul(eta, cosT)), rcp(add(cosI, mul(eta, cosT))))
  IN  mul(Q(1, 2), add(sqr(Rpar), sqr(Rper)))

fresnelDielectricEx(cosI, eta) ==
  LET sqrCosT == sub(One, mul(sqr(eta), sub(One, sqr(cosI))))
  IN  IF lt(sqrCosT, Zero)
      THEN [F |-> One, cosThetaT |-> Zero]
      ELSE [F |-> fresnelDielectric(cosI, sqrt(sqrCosT), eta), cosThetaT |-> sqrt(sqrCosT)]

(***************************************************************************)
(* BSDF nodes.  Every node carries the BSDF header (type, albedo) and the  *)
(* parameters of its model; a layer refers to its substrate by arena index.*)
(***************************************************************************)
NoNode == 0

BSDF_Constructor(kind, albedo, type) ==
  [kind |-> kind, albedo |-> albedo, type |-> type,
   eta |-> Zero, attenuation |-> make_vec3f(Zero),
   substrate |-> NoNode, R |-> make_vec3f(Zero),
   microfacet |-> make_SheenDistribution(Zero), roughness |-> Zero, weight |-> Zero]

(***************************************************************************)
(* Diffuse leaf substrates: implementers of the eval/sample interface with *)
(* a continuous cosine lobe (value R cos/pi, pdf cos/pi).                  *)
(***************************************************************************)
Diffuse_Constructor(R, transmissive) ==
  [BSDF_Constructor(IF transmissive THEN "DiffuseTransmission" ELSE "DiffuseReflection", R,
                    IF transmissive THEN BSDF_DIFFUSE_TRANSMISSION ELSE BSDF_DIFFUSE_REFLECTION)
   EXCEPT !.R = R]

Diffuse_side(self, wi) == IF self.kind = "DiffuseTransmission" THEN neg(wi) ELSE wi

Diffuse_eval(self, wo, wi) ==
  LET cosThetaO == dot(wo, getN)
      cosThetaI == dot(Diffuse_side(self, wi), getN)
  IN  IF le(cosThetaO, Zero) \/ le(cosThetaI, Zero)
      THEN make_BSDF_EvalRes_zero
      ELSE [value |-> vmul(self.R, mul(cosThetaI, one_over_pi)),
            pdf |-> mul(cosThetaI, one_over_pi)]

Diffuse_sample(self, wo, s, ss) ==
  LET wi == Diffuse_side(self, getFrame(uniformSampleHemisphere(s)))
      e == Diffuse_eval(self, wo, wi)
  IN  IF e.pdf = Zero
      THEN make_BSDF_SampleRes_zero
      ELSE [wi |-> wi, weight |-> vmul(e.value, rcp(e.pdf)), pdf |-> e.pdf, type |-> self.type]

(***************************************************************************)
(* ThinDielectric                                                          *)
(***************************************************************************)
ThinDielectric_Constructor(eta, attenuation) ==
  [BSDF_Constructor("ThinDielectric", vexpf(attenuation), BSDF_SPECULAR)
   EXCEPT !.eta = eta, !.attenuation = attenuation]

ThinDielectric_eval(self, wo, wi) == make_BSDF_EvalRes_zero

ThinDielectric_doReflection_lt(ss, F) == lt(ss, F)

ThinDielectric_doReflection(ss, F) == le(ss, F)

ThinDielectric_sample(self, wo, s, ss) ==
  LET cosThetaO == max(dot(wo, getN), Zero)
      fr == fresnelDielectricEx(cosThetaO, self.eta)
      doReflection == ThinDielectric_doReflection(ss, fr.F)
  IN  IF doReflection
      THEN [wi |-> reflect(wo, getN, cosThetaO),
            weight |-> make_vec3f(One),
            pdf |-> inf,
            type |-> BSDF_SPECULAR_REFLECTION]
      ELSE LET length == rcp(fr.cosThetaT)
               A == vexpf(vmul(self.attenuation, length))
           IN  [wi |-> neg(wo),
                weight |-> A,
                pdf |-> inf,
                type |-> BSDF_SPECULAR_TRANSMISSION]

ThinDielectric_getTransparency_noFresnel(cosThetaO, eta, attenuation) ==
  LET fr == fresnelDielectricEx(cosThetaO, eta)
  IN  vexpf(vmul(attenuation, rcp(fr.cosThetaT)))

ThinDielectric_getTransparency(cosThetaO, eta, attenuation) ==
  LET fr == fresnelDielectricEx(cosThetaO, eta)
      length == rcp(fr.cosThetaT)
      A == vexpf(vmul(attenuation, length))
  IN  vmul(A, sub(One, fr.F))

(***************************************************************************)
(* MicrofacetSheenLayer                                                    *)
(***************************************************************************)
RECURSIVE BSDF_eval(_, _, _, _)

RECURSIVE BSDF_sample(_, _, _, _, _)

MicrofacetSheenLayer_Constructor_noSubstrate(ar, substrate, R, roughness, weight) ==
  [BSDF_Constructor("MicrofacetSheenLayer",
                    lerp(mul(weight, Q(1, 10)), ar[substrate].albedo, R),
                    BSDF_DIFFUSE_REFLECTION \cup ar[substrate].type)
   EXCEPT !.R = R,
          !.microfacet = make_SheenDistribution(roughnessToAlpha(roughness)),
          !.roughness = roughness, !.weight = weight]

MicrofacetSheenLayer_Constructor_substrateType(ar, substrate, R, roughness, weight) ==
  [BSDF_Constructor("MicrofacetSheenLayer",
                    lerp(mul(weight, Q(1, 10)), ar[substrate].albedo, R),
                    ar[substrate].type)
   EXCEPT !.substrate = substrate, !.R = R,
          !.microfacet = make_SheenDistribution(roughnessToAlpha(roughness)),
          !.roughness = roughness, !.weight = weight]

MicrofacetSheenLayer_Constructor(ar, substrate, R, roughness, weight) ==
  [BSDF_Constructor("MicrofacetSheenLayer",
                    lerp(mul(weight, Q(1, 10)), ar[substrate].albedo, R),
                    BSDF_DIFFUSE_REFLECTION \cup ar[substrate].type)
   EXCEPT !.substrate = substrate, !.R = R,
          !.microfacet = make_SheenDistribution(roughnessToAlpha(roughness)),
          !.roughness = roughness, !.weight = weight]

\* the coating reflection: the half vector wo + wi is kept unnormalised with
\* its squared length; D needs cos^2(thetaH), G2 the signs of cosThetaOH/IH
MicrofacetSheenLayer_coat(self, wo, wi, cosThetaO, cosThetaI) ==
  LET wh == vadd(wo, wi)
      sqrCosThetaH == mul(sqr(dot(wh, getN)), rcp(dot(wh, wh)))
      cosThetaOH == dot(wo, wh)
      cosThetaIH == dot(wi, wh)
      D == SheenDistribution_eval(self.microfacet, sqrCosThetaH)
      G == evalG2(self.microfacet, cosThetaO, cosThetaI, cosThetaOH, cosThetaIH)
  IN  [pdf |-> uniformSampleHemispherePDF,
       value |-> vmul(self.R, mul(mul(mul(D, G), rcp(mul(Q(4, 1), cosThetaO))), self.weight))]

MicrofacetSheenLayer_eval_T_noRi(Ro, Ri) == sub(One, Ro)

MicrofacetSheenLayer_eval_T(Ro, Ri) == min(sub(One, Ro), sub(One, Ri))

MicrofacetSheenLayer_eval_transmission_unscaled(substrate, substratePickProb) == substrate

MicrofacetSheenLayer_eval_transmission(substrate, substratePickProb) ==
  [substrate EXCEPT !.pdf = mul(@, substratePickProb)]

\* the layer's evaluation above the horizon, given the substrate's evaluation
MicrofacetSheenLayer_eval_layer(self, wo, wi, cosThetaO, cosThetaI, substrate0) ==
  LET Ro == mul(MicrofacetSheenAlbedoTable_eval(cosThetaO, self.roughness), self.weight)
      Ri == mul(MicrofacetSheenAlbedoTable_eval(abs(cosThetaI), self.roughness), self.weight)
      T == MicrofacetSheenLayer_eval_T(Ro, Ri)
      substrate == [substrate0 EXCEPT !.value = vmul(@, T)]
      coatPickProb == Ro
      substratePickProb == sub(One, coatPickProb)
  IN  IF lt(Zero, cosThetaI)
      THEN LET coat == MicrofacetSheenLayer_coat(self, wo, wi, cosThetaO, cosThetaI)
           IN  [pdf |-> add(mul(coatPickProb, coat.pdf), mul(substratePickProb, substrate.pdf)),
                value |-> vadd(coat.value, substrate.value)]
      ELSE MicrofacetSheenLayer_eval_transmission(substrate, substratePickProb)

MicrofacetSheenLayer_eval(ar, self, wo, wi) ==
  LET cosThetaO == dot(wo, getN)
  IN  IF le(cosThetaO, Zero)
      THEN make_BSDF_EvalRes_zero
      ELSE MicrofacetSheenLayer_eval_layer(self, wo, wi, cosThetaO, dot(wi, getN),
              BSDF_eval(ar, self.substrate, wo, wi))

MicrofacetSheenLayer_sample_substrateVoid_lt(res0) == lt(reduce_max(res0.weight), Zero)

MicrofacetSheenLayer_sample_substrateVoid(res0) == le(reduce_max(res0.weight), Zero)

MicrofacetSheenLayer_sample_substrateValue_noPdf(res0) == res0.weight

MicrofacetSheenLayer_sample_substrateValue_timesPdf(res0) == vmul(res0.weight, res0.pdf)

MicrofacetSheenLayer_sample_substrateValue(res0) ==
  vmul(res0.weight, IF res0.type \cap BSDF_SPECULAR # {} THEN One ELSE res0.pdf)

\* MicrofacetSheenLayer_sample returns the BSDF_SampleRes as res; path, terms
\* and rcps record the exit taken, the terms evaluated and the arguments of the
\* reciprocals taken by this call.  It is written in the three stages of the
\* code: the exits after the energy conservation step ...
MicrofacetSheenLayer_sample_exit(self, wo, res0, substrate0, cosThetaO, Ro, terms0, rcps0) ==
  LET coatPickProb == Ro
      substratePickProb == sub(One, coatPickProb)
      cosThetaI == dot(res0.wi, getN)
      Ri == mul(MicrofacetSheenAlbedoTable_eval(abs(cosThetaI), self.roughness), self.weight)
      T == min(sub(One, Ro), sub(One, Ri))
      substrate == [substrate0 EXCEPT !.value = vmul(@, T)]
      terms1 == terms0 \cup {"Ri", "T"}
  IN  IF res0.type \cap BSDF_SPECULAR # {}
      THEN [res |-> [res0 EXCEPT !.weight = vmul(substrate.value, rcp(substratePickProb))],
            path |-> "specular", terms |-> terms1,
            rcps |-> rcps0 \cup {substratePickProb}]
      ELSE IF le(cosThetaI, Zero)
      THEN LET pdf == mul(substratePickProb, substrate.pdf)
           IN  [res |-> [res0 EXCEPT !.pdf = pdf,
                                     !.weight = vmul(substrate.value, rcp(pdf))],
                path |-> "transmission", terms |-> terms1,
                rcps |-> rcps0 \cup {pdf}]
      ELSE LET coat == MicrofacetSheenLayer_coat(self, wo, res0.wi, cosThetaO, cosThetaI)
               pdf == add(mul(coatPickProb, coat.pdf), mul(substratePickProb, substrate.pdf))
           IN  [res |-> [res0 EXCEPT !.pdf = pdf,
                                     !.weight = vmul(vadd(coat.value, substrate.value), rcp(pdf))],
                path |-> "reflection", terms |-> terms1 \cup {"D", "G2"},
                rcps |-> rcps0 \cup {mul(Q(4, 1), cosThetaO), pdf}]

\* ... the substrate branch, given the substrate's sample res0 ...
MicrofacetSheenLayer_sample_substrate(self, wo, res0, cosThetaO, Ro) ==
  IF MicrofacetSheenLayer_sample_substrateVoid(res0)
  THEN [res |-> res0, path |-> "void", terms |-> {"Ro", "substrate_sample"},
        rcps |-> {sub(One, Ro)}]
  ELSE MicrofacetSheenLayer_sample_exit(self, wo, res0,
          [pdf |-> res0.pdf, value |-> MicrofacetSheenLayer_sample_substrateValue(res0)],
          cosThetaO, Ro, {"Ro", "substrate_sample"}, {sub(One, Ro)})

\* ... and the coat branch, given the direction wi sampled for the coat
MicrofacetSheenLayer_sample_coat(ar, self, wo, wi, cosThetaO, Ro) ==
  MicrofacetSheenLayer_sample_exit(self, wo,
     [make_BSDF_SampleRes_zero EXCEPT !.type = BSDF_DIFFUSE_REFLECTION, !.wi = wi],
     BSDF_eval(ar, self.substrate, wo, wi),
     cosThetaO, Ro, {"Ro", "substrate_eval"}, {})

MicrofacetSheenLayer_sample_pick(ar, self, wo, s, ss, cosThetaO, Ro) ==
  LET coatPickProb == Ro
      substratePickProb == sub(One, coatPickProb)
  IN  IF lt(ss, coatPickProb)
      THEN MicrofacetSheenLayer_sample_coat(ar, self, wo,
              getFrame(uniformSampleHemisphere(s)), cosThetaO, Ro)
      ELSE LET ss1 == mul(sub(ss, coatPickProb), rcp(substratePickProb))
           IN  MicrofacetSheenLayer_sample_substrate(self, wo,
                  BSDF_sample(ar, self.substrate, wo, s, ss1), cosThetaO, Ro)

MicrofacetSheenLayer_sample(ar, self, wo, s, ss) ==
  LET cosThetaO == dot(wo, getN)
  IN  IF le(cosThetaO, Zero)
      THEN [res |-> make_BSDF_SampleRes_zero, path |-> "horizon", terms |-> {}, rcps |-> {}]
      ELSE MicrofacetSheenLayer_sample_pick(ar, self, wo, s, ss, cosThetaO,
              mul(MicrofacetSheenAlbedoTable_eval(cosThetaO, self.roughness), self.weight))

MicrofacetSheenLayer_getTransparency(cosThetaO, roughness, weight) ==
  LET Ro == mul(MicrofacetSheenAlbedoTable_eval(cosThetaO, roughness), weight)
      T == sub(One, Ro)
  IN  make_vec3f(T)

(***************************************************************************)
(* Dispatch through the node's eval/sample function pointers.              *)
(***************************************************************************)
BSDF_eval(ar, n, wo, wi) ==
  LET f == ar[n]
  IN  CASE f.kind = "ThinDielectric" -> ThinDielectric_eval(f, wo, wi)
        [] f.kind = "MicrofacetSheenLayer" -> MicrofacetSheenLayer_eval(ar, f, wo, wi)
        [] OTHER -> Diffuse_eval(f, wo, wi)

BSDF_sample(ar, n, wo, s, ss) ==
  LET f == ar[n]
  IN  CASE f.kind = "ThinDielectric" -> ThinDielectric_sample(f, wo, s, ss)
        [] f.kind = "MicrofacetSheenLayer" -> MicrofacetSheenLayer_sample(ar, f, wo, s, ss).res
        [] OTHER -> Diffuse_sample(f, wo, s, ss)

(***************************************************************************)
(* Inputs the integrator and the material layer supply.                    *)
(***************************************************************************)
Dir(x, z) == <<x, Zero, z>>

Directions ==
  {Dir(Zero, One), Dir(Q(3, 5), Q(4, 5)), Dir(Q(4, 5), Q(3, 5)), Dir(One, Zero),
   Dir(Q(3, 5), Q(-4, 5)), Dir(Zero, Q(-1, 1))}

Samples2D == {<<Zero, Zero>>, <<Zero, Q(3, 5)>>, <<Zero, Q(4, 5)>>, <<Q(1, 2), Q(3, 5)>>}

Samples1D == {Zero, Q(1, 100), Q(1, 25), Q(1, 4), Q(1, 2)}

Etas == {Q(3, 2), Q(2, 3)}

Attenuations == {make_vec3f(Zero), <<Q(-1, 1), Zero, Q(-2, 1)>>}

\* <<reflectance, transmissive>> of the diffuse substrates
DiffuseParams ==
  {<<(<<Q(1, 2), One, Zero>>), FALSE>>, <<(<<Q(1, 2), One, Zero>>), TRUE>>,
   <<make_vec3f(Zero), FALSE>>}

SheenColors == {<<One, Q(1, 2), One>>}

Roughnesses == {Q(1, 2)}

Weights == {Zero, Q(1, 2), One}

Cosines == {One, Q(4, 5), Q(3, 5), Zero}

(***************************************************************************)
(* State: the arena of the shading context, and the call the integrator    *)
(* has made and whose result it has not consumed yet (kind "none": no call *)
(* is outstanding).  One call is made at a time per shading context.       *)
(***************************************************************************)
\* the values of the parts of the state a specification leaves alone
NoRemap == [kind |-> "none"]

NoVolume == [kind |-> "none"]

NoRange == <<inf, negf(inf)>>

NoParallelFor == [pc |-> "none", voxelRange |-> NoRange]

NoWorker == 0

NoRay == [kind |-> "none"]

NoMaterialCall == [kind |-> "none"]

NoVec == make_vec3f(Zero)

NoCall ==
  [kind |-> "none", node |-> NoNode, wo |-> NoVec, wi |-> NoVec, s |-> <<Zero, Zero>>,
   ss |-> Zero, cosThetaO |-> Zero, eta |-> Zero, attenuation |-> NoVec,
   roughness |-> Zero, weight |-> Zero,
   eval |-> make_BSDF_EvalRes_zero, sample |-> make_BSDF_SampleRes_zero,
   path |-> "none", terms |-> {}, rcps |-> {}, value |-> NoVec]

Init ==
  /\ arena = <<>>
  /\ res = NoCall
  /\ remap = NoRemap
  /\ volume = NoVolume
  /\ parallelFor = NoParallelFor
  /\ source = <<>> /\ voxelRange = NoRange /\ workers = <<>> /\ mutex = NoWorker
  /\ ray = NoRay
  /\ material = NoMaterialCall

\* ShadingContext_alloc: the next slot of the arena, if one is left
ShadingContext_alloc(ar, node) == Append(ar, node)

ThinDielectric_create(eta, attenuation) ==
  /\ res = NoCall
  /\ Len(arena) < MaxNodes
  /\ arena' = ShadingContext_alloc(arena, ThinDielectric_Constructor(eta, attenuation))
  /\ UNCHANGED res
  /\ UNCHANGED <<floatVars, volumeVars, rangeVars, spheresVars, materialVars>>

Diffuse_create(R, transmissive) ==
  /\ res = NoCall
  /\ Len(arena) < MaxNodes
  /\ arena' = ShadingContext_alloc(arena, Diffuse_Constructor(R, transmissive))
  /\ UNCHANGED res
  /\ UNCHANGED <<floatVars, volumeVars, rangeVars, spheresVars, materialVars>>

MicrofacetSheenLayer_create(substrate, R, roughness, weight) ==
  /\ res = NoCall
  /\ Len(arena) < MaxNodes
  /\ substrate \in 1..Len(arena)
  /\ arena' = ShadingContext_alloc(arena,
                 MicrofacetSheenLayer_Constructor(arena, substrate, R, roughness, weight))
  /\ UNCHANGED res
  /\ UNCHANGED <<floatVars, volumeVars, rangeVars, spheresVars, materialVars>>

\* the arena is reclaimed in bulk between shading points
ShadingContext_reset ==
  /\ res = NoCall
  /\ arena # <<>>
  /\ arena' = <<>>
  /\ UNCHANGED res
  /\ UNCHANGED <<floatVars, volumeVars, rangeVars, spheresVars, materialVars>>

Call_eval(n, wo, wi) ==
  /\ res = NoCall
  /\ n \in 1..Len(arena)
  /\ res' = [NoCall EXCEPT !.kind = "eval", !.node = n, !.wo = wo, !.wi = wi,
                           !.eval = BSDF_eval(arena, n, wo, wi)]
  /\ UNCHANGED arena
  /\ UNCHANGED <<floatVars, volumeVars, rangeVars, spheresVars, materialVars>>

\* the integrator's record of a sample call: the result r.res and what the
\* call did on the way (r.path, r.terms, r.rcps)
Call_sample_result(n, wo, s, ss, r) ==
  [NoCall EXCEPT !.kind = "sample", !.node = n, !.wo = wo, !.s = s, !.ss = ss,
                 !.sample = r.res, !.path = r.path, !.terms = r.terms, !.rcps = r.rcps]

Call_sample(n, wo, s, ss) ==
  /\ res = NoCall
  /\ n \in 1..Len(arena)
  /\ res' = Call_sample_result(n, wo, s, ss,
               IF arena[n].kind = "MicrofacetSheenLayer"
               THEN MicrofacetSheenLayer_sample(arena, arena[n], wo, s, ss)
               ELSE [res |-> BSDF_sample(arena, n, wo, s, ss), path |-> "leaf",
                     terms |-> {}, rcps |-> {}])
  /\ UNCHANGED arena
  /\ UNCHANGED <<floatVars, volumeVars, rangeVars, spheresVars, materialVars>>

Call_ThinDielectric_getTransparency(cosThetaO, eta, attenuation) ==
  /\ res = NoCall
  /\ res' = [NoCall EXCEPT !.kind = "ThinDielectric_getTransparency",
                           !.cosThetaO = cosThetaO, !.eta = eta, !.attenuation = attenuation,
                           !.value = ThinDielectric_getTransparency(cosThetaO, eta, attenuation)]
  /\ UNCHANGED arena
  /\ UNCHANGED <<floatVars, volumeVars, rangeVars, spheresVars, materialVars>>

Call_MicrofacetSheenLayer_getTransparency(cosThetaO, roughness, weight) ==
  /\ res = NoCall
  /\ res' = [NoCall EXCEPT !.kind = "MicrofacetSheenLayer_getTransparency",
                           !.cosThetaO = cosThetaO, !.roughness = roughness, !.weight = weight,
                           !.value = MicrofacetSheenLayer_getTransparency(cosThetaO, roughness, weight)]
  /\ UNCHANGED arena
  /\ UNCHANGED <<floatVars, volumeVars, rangeVars, spheresVars, materialVars>>

\* the caller consumes the result of its call
Return ==
  /\ res # NoCall
  /\ res' = NoCall
  /\ UNCHANGED arena
  /\ UNCHANGED <<floatVars, volumeVars, rangeVars, spheresVars, materialVars>>

Next ==
  \/ \E eta \in Etas, attenuation \in Attenuations : ThinDielectric_create(eta, attenuation)
  \/ \E p \in DiffuseParams : Diffuse_create(p[1], p[2])
  \/ \E substrate \in 1..MaxNodes, R \in SheenColors, roughness \in Roughnesses, weight \in Weights :
        MicrofacetSheenLayer_create(substrate, R, roughness, weight)
  \/ ShadingContext_reset
  \/ \E n \in 1..MaxNodes, wo \in Directions, wi \in Directions : Call_eval(n, wo, wi)
  \/ \E n \in 1..MaxNodes, wo \in Directions, s \in Samples2D, ss \in Samples1D :
        Call_sample(n, wo, s, ss)
  \/ \E cosThetaO \in Cosines, eta \in Etas, attenuation \in Attenuations :
        Call_ThinDielectric_getTransparency(cosThetaO, eta, attenuation)
  \/ \E cosThetaO \in Cosines, roughness \in Roughnesses, weight \in Weights :
        Call_MicrofacetSheenLayer_getTransparency(cosThetaO, roughness, weight)
  \/ Return

Spec == Init /\ [][Next]_vars

(***************************************************************************)
(* The lobe pick of MicrofacetSheenLayer_sample in floating point: the      *)
(* comparison ss < coatPickProb and the reallocation of the sample,         *)
(* (ss - coatPickProb) * rcp(substratePickProb), for ss in [0,1) and Ro in  *)
(* [0,1] on the float grid.                                                 *)
(***************************************************************************)
Floats01 ==
  {Zero, One} \cup
  {Q(m, Pow2(MantissaBits + b)) :
     m \in Pow2(MantissaBits - 1)..(Pow2(MantissaBits) - 1), b \in 0..MaxBinade}

MicrofacetSheenLayer_sample_ss1(ss, coatPickProb, substratePickProb) ==
  fmul(fsub(ss, coatPickProb), frcp(substratePickProb))

MicrofacetSheenLayer_sample_remap(ss, Ro) ==
  [kind |-> "remap", ss |-> ss, Ro |-> Ro,
   coat |-> lt(ss, Ro),
   substratePickProb |-> fsub(One, Ro),
   ss1 |-> IF lt(ss, Ro) THEN ss
           ELSE MicrofacetSheenLayer_sample_ss1(ss, Ro, fsub(One, Ro))]

Call_remap(ss, Ro) ==
  /\ remap = NoRemap
  /\ remap' = MicrofacetSheenLayer_sample_remap(ss, Ro)
  /\ UNCHANGED <<bsdfVars, volumeVars, rangeVars, spheresVars, materialVars>>

Return_remap ==
  /\ remap # NoRemap
  /\ remap' = NoRemap
  /\ UNCHANGED <<bsdfVars, volumeVars, rangeVars, spheresVars, materialVars>>

NextRemap ==
  \/ \E ss \in Floats01 \ {One}, Ro \in Floats01 : Call_remap(ss, Ro)
  \/ Return_remap

SpecRemap == Init /\ [][NextRemap]_vars

(***************************************************************************)
(* StructuredVolume: the parameters the application has set on the object, *)
(* the object's members, and the ISPC-side equivalent.  exitOnCondition    *)
(* ends the program with the message given.                                *)
(***************************************************************************)
make_vec3i(a) == <<a, a, a>>

reduce_min_i(v) ==
  IF v[1] <= v[2] /\ v[1] <= v[3] THEN v[1] ELSE IF v[2] <= v[3] THEN v[2] ELSE v[3]

findParam(self, name) == name \in DOMAIN self.params

getParam(self, name, default) == IF findParam(self, name) THEN self.params[name] ELSE default

set(self, name, value) ==
  [self EXCEPT !.params = [n \in DOMAIN self.params \cup {name} |->
                             IF n = name THEN value ELSE self.params[n]]]

\* markers for members no code has assigned yet (they are not read before)
unassigned3f == make_vec3f(NaN)

unassigned3i == make_vec3i(-1)

\* a volume as constructed: no parameter set, not finished, the members that
\* commit assigns not yet assigned
StructuredVolume_new ==
  [kind |-> "StructuredVolume", params |-> <<>>,
   gridOrigin |-> unassigned3f, dimensions |-> unassigned3i, gridSpacing |-> unassigned3f,
   voxelRange |-> <<inf, negf(inf)>>, finished |-> FALSE,
   ispc |-> [gridOrigin |-> unassigned3f, gridSpacing |-> unassigned3f, accelerators |-> 0],
   commitCalls |-> 0, finishCalls |-> 0, error |-> "none"]

StructuredVolume_buildAccelerator(self) ==
  [self EXCEPT !.ispc.accelerators = @ + 1]

StructuredVolume_finish(self) ==
  StructuredVolume_buildAccelerator(
    [(IF ~findParam(self, "voxelRange")
      THEN set(self, "voxelRange", self.voxelRange)
      ELSE [self EXCEPT !.voxelRange = getParam(self, "voxelRange", self.voxelRange)])
     EXCEPT !.finishCalls = @ + 1])

StructuredVolume_commit_invalidDimensions_negative(dimensions) ==
  reduce_min_i(dimensions) < 0

StructuredVolume_commit_invalidDimensions(dimensions) == reduce_min_i(dimensions) <= 0

StructuredVolume_commit_needsFinish_always(self) == TRUE

StructuredVolume_commit_needsFinish(self) == ~self.finished

\* commit after the dimensions check: lines 41-58
StructuredVolume_commit_valid(self, gridSpacing) ==
  IF StructuredVolume_commit_needsFinish(self)
  THEN [StructuredVolume_finish(
          [self EXCEPT !.gridSpacing = gridSpacing,
                       !.ispc.gridOrigin = self.gridOrigin,
                       !.ispc.gridSpacing = gridSpacing])
        EXCEPT !.finished = TRUE]
  ELSE [self EXCEPT !.gridSpacing = gridSpacing,
                    !.ispc.gridOrigin = self.gridOrigin,
                    !.ispc.gridSpacing = gridSpacing]

\* commit from the dimensions check on, gridOrigin and dimensions assigned
StructuredVolume_commit_checked(self) ==
  IF StructuredVolume_commit_invalidDimensions(self.dimensions)
  THEN [self EXCEPT !.error = "invalid volume dimensions"]
  ELSE StructuredVolume_commit_valid(self, getParam(self, "gridSpacing", make_vec3f(One)))

StructuredVolume_commit(self) ==
  StructuredVolume_commit_checked(
    [self EXCEPT !.commitCalls = @ + 1,
                 !.gridOrigin = getParam(self, "gridOrigin", make_vec3f(Zero)),
                 !.dimensions = getParam(self, "dimensions", make_vec3i(0))])

\* the values the application sets
VolumeParams ==
  ({"gridOrigin"} \X {make_vec3f(One)}) \cup
  ({"dimensions"} \X {<<2, 2, 2>>, <<1, 3, 2>>, <<2, 0, 2>>, <<2, 2, -1>>}) \cup
  ({"gridSpacing"} \X {make_vec3f(Q(1, 2))}) \cup
  ({"voxelRange"} \X {<<Zero, One>>})

InitVolume ==
  /\ arena = <<>>
  /\ res = NoCall
  /\ remap = NoRemap
  /\ volume = StructuredVolume_new
  /\ parallelFor = NoParallelFor
  /\ source = <<>> /\ voxelRange = NoRange /\ workers = <<>> /\ mutex = NoWorker
  /\ ray = NoRay
  /\ material = NoMaterialCall

\* the application sets a parameter of the volume
Volume_set(name, value) ==
  /\ volume.error = "none"
  /\ volume' = set(volume, name, value)
  /\ UNCHANGED <<bsdfVars, floatVars, rangeVars, spheresVars, materialVars>>

Volume_commit ==
  /\ volume.error = "none"
  /\ volume.commitCalls < MaxCommits
  /\ volume' = StructuredVolume_commit(volume)
  /\ UNCHANGED <<bsdfVars, floatVars, rangeVars, spheresVars, materialVars>>

NextVolume ==
  \/ \E p \in VolumeParams : Volume_set(p[1], p[2])
  \/ Volume_commit

SpecVolume == InitVolume /\ [][NextVolume]_vars

(***************************************************************************)
(* StructuredVolume::computeVoxelRange for unsigned byte voxels: one call, *)
(* its loop iterations run as parallel workers in any interleaving.  Each  *)
(* access to the shared voxelRange is a step of its own.                   *)
(***************************************************************************)
divRoundUp(a, b) == (a + b - 1) \div b

std_min(a, b) == IF b < a THEN b ELSE a

std_max(a, b) == IF a < b THEN b ELSE a

\* (float) source[i], source indexed from 0: a byte's value, exact as a float
voxel(src, i) == src[i + 1]

\* the sequential loop, lines 134-137, over source[from .. to-1]
RECURSIVE computeVoxelRange_loop(_, _, _, _)
computeVoxelRange_loop(src, from, to, range) ==
  IF from >= to THEN range
  ELSE computeVoxelRange_loop(src, from + 1, to,
          <<std_min(range[1], voxel(src, from)), std_max(range[2], voxel(src, from))>>)

Worker_myBegin(i) == i * blockSize

Worker_myEnd(i, count) ==
  IF count < Worker_myBegin(i) + blockSize THEN count ELSE Worker_myBegin(i) + blockSize

\* the private range of iteration i: lines 118-125
Worker_myVoxelRange(src, i, count) ==
  computeVoxelRange_loop(src, Worker_myBegin(i), Worker_myEnd(i, count),
     <<voxel(src, Worker_myBegin(i)), voxel(src, Worker_myBegin(i))>>)

Worker_merge_x_overwrite(shared, mine) == mine

Worker_merge_x(shared, mine) == std_min(shared, mine)

Worker_merge_y(shared, mine) == std_max(shared, mine)

MutexSys_lock_unguarded(m) == TRUE

\* mutex.lock() returns once the mutex is free
MutexSys_lock(m) == m = NoWorker

Voxels == {1, 6}

Sources == UNION {[1..n -> Voxels] : n \in 0..MaxCount}

\* the voxelRange of a volume without voxels, <<FLT_MAX, -FLT_MAX>> scaled to
\* the bytes used, and one left by an earlier call
VoxelRanges == {<<1000, -1000>>, <<2, 5>>}

InitRange ==
  /\ arena = <<>>
  /\ res = NoCall
  /\ remap = NoRemap
  /\ volume = NoVolume
  /\ source = <<>>
  /\ voxelRange = <<0, 0>>
  /\ parallelFor = [pc |-> "call", voxelRange |-> <<0, 0>>]
  /\ workers = <<>>
  /\ mutex = NoWorker
  /\ ray = NoRay
  /\ material = NoMaterialCall

\* the call, with the voxels handed in and the voxelRange the volume has by
\* then; lines 113-117: the iterations i = 0 .. numBlocks-1 start (workers[i + 1])
computeVoxelRange_fork ==
  /\ parallelFor.pc = "call"
  /\ \E src \in Sources, range \in VoxelRanges :
        /\ parallelFor' = [pc |-> "parallel", voxelRange |-> range]
        /\ source' = src
        /\ voxelRange' = range
        /\ workers' = [w \in 1..divRoundUp(Len(src), blockSize) |->
                         [pc |-> "scan", myVoxelRange |-> <<0, 0>>, read |-> 0]]
  /\ UNCHANGED mutex
  /\ UNCHANGED <<bsdfVars, floatVars, volumeVars, spheresVars, materialVars>>

Worker_scan(w) ==
  /\ workers[w].pc = "scan"
  /\ workers' = [workers EXCEPT ![w].pc = "lock",
                                ![w].myVoxelRange = Worker_myVoxelRange(source, w - 1, Len(source))]
  /\ UNCHANGED <<parallelFor, source, voxelRange, mutex>>
  /\ UNCHANGED <<bsdfVars, floatVars, volumeVars, spheresVars, materialVars>>

Worker_lock(w) ==
  /\ workers[w].pc = "lock"
  /\ MutexSys_lock(mutex)
  /\ mutex' = w
  /\ workers' = [workers EXCEPT ![w].pc = "read_x"]
  /\ UNCHANGED <<parallelFor, source, voxelRange>>
  /\ UNCHANGED <<bsdfVars, floatVars, volumeVars, spheresVars, materialVars>>

Worker_read_x(w) ==
  /\ workers[w].pc = "read_x"
  /\ workers' = [workers EXCEPT ![w].pc = "write_x", ![w].read = voxelRange[1]]
  /\ UNCHANGED <<parallelFor, source, voxelRange, mutex>>
  /\ UNCHANGED <<bsdfVars, floatVars, volumeVars, spheresVars, materialVars>>

Worker_write_x(w) ==
  /\ workers[w].pc = "write_x"
  /\ voxelRange' = <<Worker_merge_x(workers[w].read, workers[w].myVoxelRange[1]), voxelRange[2]>>
  /\ workers' = [workers EXCEPT ![w].pc = "read_y"]
  /\ UNCHANGED <<parallelFor, source, mutex>>
  /\ UNCHANGED <<bsdfVars, floatVars, volumeVars, spheresVars, materialVars>>

Worker_read_y(w) ==
  /\ workers[w].pc = "read_y"
  /\ workers' = [workers EXCEPT ![w].pc = "write_y", ![w].read = voxelRange[2]]
  /\ UNCHANGED <<parallelFor, source, voxelRange, mutex>>
  /\ UNCHANGED <<bsdfVars, floatVars, volumeVars, spheresVars, materialVars>>

Worker_write_y(w) ==
  /\ workers[w].pc = "write_y"
  /\ voxelRange' = <<voxelRange[1], Worker_merge_y(workers[w].read, workers[w].myVoxelRange[2])>>
  /\ workers' = [workers EXCEPT ![w].pc = "unlock"]
  /\ UNCHANGED <<parallelFor, source, mutex>>
  /\ UNCHANGED <<bsdfVars, floatVars, volumeVars, spheresVars, materialVars>>

Worker_unlock(w) ==
  /\ workers[w].pc = "unlock"
  /\ mutex' = NoWorker
  /\ workers' = [workers EXCEPT ![w].pc = "done"]
  /\ UNCHANGED <<parallelFor, source, voxelRange>>
  /\ UNCHANGED <<bsdfVars, floatVars, volumeVars, spheresVars, materialVars>>

\* the end of the parallel loop: every iteration has finished
computeVoxelRange_join ==
  /\ parallelFor.pc = "parallel"
  /\ \A w \in DOMAIN workers : workers[w].pc = "done"
  /\ parallelFor' = [parallelFor EXCEPT !.pc = "joined"]
  /\ UNCHANGED <<source, voxelRange, workers, mutex>>
  /\ UNCHANGED <<bsdfVars, floatVars, volumeVars, spheresVars, materialVars>>

NextRange ==
  \/ computeVoxelRange_fork
  \/ \E w \in DOMAIN workers : Worker_scan(w)
  \/ \E w \in DOMAIN workers : Worker_lock(w)
  \/ \E w \in DOMAIN workers : Worker_read_x(w)
  \/ \E w \in DOMAIN workers : Worker_write_x(w)
  \/ \E w \in DOMAIN workers : Worker_read_y(w)
  \/ \E w \in DOMAIN workers : Worker_write_y(w)
  \/ \E w \in DOMAIN workers : Worker_unlock(w)
  \/ computeVoxelRange_join

\* the threads of the parallel loop keep running: a step that can be taken is
\* taken eventually
SpecRange == InitRange /\ [][NextRange]_vars /\ WF_vars(NextRange)

(***************************************************************************)
(* Spheres: the intersection kernel on the ray of one lane.  The ray       *)
(* record carries the lane's mask bit (valid), the geometry the traversal  *)
(* is testing it against, and the last kernel call made on it.             *)
(***************************************************************************)
vsub(v, w) == vadd(v, neg(w))

neg_inf == negf(inf)

\* a Spheres geometry: the per-sphere radius is read from the data when
\* offset_radius >= 0
SpheresData ==
  <<[center |-> <<Zero, Zero, Zero>>, radius |-> One],
    [center |-> <<Zero, Zero, Q(3, 1)>>, radius |-> Q(2, 1)],
    [center |-> <<Q(3, 1), Zero, Zero>>, radius |-> One],
    [center |-> <<Zero, Zero, Q(-3, 4)>>, radius |-> One],
    [center |-> <<One, Zero, Zero>>, radius |-> One]>>

SpheresGeometries ==
  {[data |-> SpheresData, offset_radius |-> 12, radius |-> Q(1, 100), epsilon |-> Q(1, 2), geomID |-> 3],
   [data |-> SpheresData, offset_radius |-> -1, radius |-> Q(1, 2), epsilon |-> Zero, geomID |-> 4]}

Spheres_radius(self, primID) ==
  IF self.offset_radius >= 0 THEN self.data[primID + 1].radius ELSE self.radius

Spheres_center(self, primID) == self.data[primID + 1].center

\* lines 586-589, for the radical and the reciprocal of 2a
Spheres_roots(b, radical, rcp2a, approxDist) ==
  [radical |-> radical,
   t_in |-> add(mul(sub(b, sqrt(radical)), rcp2a), approxDist),
   t_out |-> add(mul(add(b, sqrt(radical)), rcp2a), approxDist)]

\* line 583
Spheres_quadratic(a, b, c, approxDist) ==
  Spheres_roots(b, sub(sqr(b), mul(Q(4, 1), mul(a, c))), rcp(mul(Q(2, 1), a)), approxDist)

\* lines 579-581, for A = center - closeOrg
Spheres_coefficients(dir, A, radius, approxDist) ==
  Spheres_quadratic(dot(dir, dir), mul(Q(2, 1), dot(dir, A)), sub(dot(A, A), sqr(radius)),
                    approxDist)

\* lines 576-577
Spheres_closest(org, dir, center, radius, approxDist) ==
  Spheres_coefficients(dir, vsub(center, vadd(org, vmul(dir, approxDist))), radius, approxDist)

Spheres_solve(self, primID, r) ==
  Spheres_closest(r.org, r.dir, Spheres_center(self, primID), Spheres_radius(self, primID),
                  dot(vsub(Spheres_center(self, primID), r.org), r.dir))

Spheres_hit_in_noFar(r, t_in) == lt(r.t0, t_in)

Spheres_hit_in(r, t_in) == lt(r.t0, t_in) /\ lt(t_in, r.t)

Spheres_hit_out(self, r, t_out) == lt(add(r.t0, self.epsilon), t_out) /\ lt(t_out, r.t)

\* lines 594/597 and 600-611: a hit at t is recorded
Spheres_record(self, primID, r, isOcclusionTest, instID, t) ==
  IF isOcclusionTest
  THEN [r EXCEPT !.t = neg_inf]
  ELSE [r EXCEPT !.t = t, !.primID = primID, !.geomID = self.geomID, !.instID = instID,
                 !.Ng = vsub(vadd(r.org, vmul(r.dir, t)), Spheres_center(self, primID))]

\* lines 584-598: the roots tested against the ray's interval
Spheres_test(self, primID, r, isOcclusionTest, instID, roots) ==
  IF lt(roots.radical, Zero) THEN r
  ELSE IF Spheres_hit_in(r, roots.t_in)
  THEN Spheres_record(self, primID, r, isOcclusionTest, instID, roots.t_in)
  ELSE IF Spheres_hit_out(self, r, roots.t_out)
  THEN Spheres_record(self, primID, r, isOcclusionTest, instID, roots.t_out)
  ELSE r

Spheres_intersect_kernel(self, primID, r, isOcclusionTest, instID) ==
  IF ~r.valid THEN r
  ELSE Spheres_test(self, primID, r, isOcclusionTest, instID, Spheres_solve(self, primID, r))

\* the rays traced: origin, direction (not always of unit length, once zero),
\* and the far end of the interval
RayOrigins == {<<Zero, Zero, Q(-5, 1)>>, <<Zero, Zero, Zero>>}

RayDirections == {<<Zero, Zero, One>>, <<Zero, Zero, Q(2, 1)>>, <<Zero, Zero, Zero>>}

RayFar == {inf, Q(3, 1)}

InstIDs == {0, 1}

InitSpheres ==
  /\ arena = <<>>
  /\ res = NoCall
  /\ remap = NoRemap
  /\ volume = NoVolume
  /\ parallelFor = NoParallelFor
  /\ source = <<>> /\ voxelRange = NoRange /\ workers = <<>> /\ mutex = NoWorker
  /\ ray = NoRay
  /\ material = NoMaterialCall

\* the traversal starts a ray on a lane: no hit yet
Ray_new(self, valid, org, dir, tfar) ==
  /\ ray = NoRay
  /\ ray' = [kind |-> "ray", geometry |-> self, valid |-> valid, org |-> org, dir |-> dir,
              t0 |-> Zero, t |-> tfar, primID |-> -1, geomID |-> -1, instID |-> -1,
              Ng |-> make_vec3f(Zero),
              call |-> [fn |-> "none", primID |-> -1, instID |-> -1]]
  /\ UNCHANGED <<bsdfVars, floatVars, volumeVars, rangeVars, materialVars>>

Spheres_intersect(primID, instID) ==
  /\ ray # NoRay
  /\ ray' = [Spheres_intersect_kernel(ray.geometry, primID, ray, FALSE, instID)
              EXCEPT !.call = [fn |-> "Spheres_intersect", primID |-> primID, instID |-> instID]]
  /\ UNCHANGED <<bsdfVars, floatVars, volumeVars, rangeVars, materialVars>>

Spheres_occluded(primID, instID) ==
  /\ ray # NoRay
  /\ ray' = [Spheres_intersect_kernel(ray.geometry, primID, ray, TRUE, instID)
              EXCEPT !.call = [fn |-> "Spheres_occluded", primID |-> primID, instID |-> instID]]
  /\ UNCHANGED <<bsdfVars, floatVars, volumeVars, rangeVars, materialVars>>

\* the traversal is done with the ray
Ray_done ==
  /\ ray # NoRay
  /\ ray' = NoRay
  /\ UNCHANGED <<bsdfVars, floatVars, volumeVars, rangeVars, materialVars>>

NextSpheres ==
  \/ \E self \in SpheresGeometries, valid \in BOOLEAN, org \in RayOrigins,
         dir \in RayDirections, tfar \in RayFar : Ray_new(self, valid, org, dir, tfar)
  \/ \E primID \in 0..(Len(SpheresData) - 1), instID \in InstIDs :
        Spheres_intersect(primID, instID)
  \/ \E primID \in 0..(Len(SpheresData) - 1), instID \in InstIDs :
        Spheres_occluded(primID, instID)
  \/ Ray_done

SpecSpheres == InitSpheres /\ [][NextSpheres]_vars

(***************************************************************************)
(* Spheres_getMaterialID on a gang of lanes.  int32 is IntBits wide, and   *)
(* primsPerPage keeps its ratio to the int32 range: 2^31 / (1024*1024*64)  *)
(* = 32 = 2^(IntBits-1) / primsPerPage.                                    *)
(***************************************************************************)
wrap(x, bits) == ((x + Pow2(bits - 1)) % Pow2(bits)) - Pow2(bits - 1)

int32(x) == wrap(x, IntBits)

int64(x) == wrap(x, 2 * IntBits)

primsPerPage == Pow2(IntBits - 6)

NumSpheres == 3 * primsPerPage

\* the material ID the application stored with sphere i
StoredMaterialID(i) == 100 + i

\* what a read outside the sphere array may return
Garbage == {-1, 0}

\* *((uint32 *)(data + byteOffset)): the values the read can produce
Spheres_load(self, byteOffset) ==
  IF \E i \in 0..(NumSpheres - 1) : byteOffset = self.stride * i + self.offset_materialID
  THEN {StoredMaterialID(i) : i \in {j \in 0..(NumSpheres - 1) :
                                       byteOffset = self.stride * j + self.offset_materialID}}
  ELSE Garbage

\* lines 467-470: offset of pagePtr from data
Spheres_pagePtr(self, primPage) == int64(int64(primPage * primsPerPage) * self.stride)

\* lines 464-472, paged path
Spheres_spherePtr_paged(self, primID) ==
  Spheres_pagePtr(self, primID \div primsPerPage) + int32(self.stride * (primID % primsPerPage))

\* lines 476-477, direct path
Spheres_spherePtr_direct(self, primID) == int32(self.stride * primID)

\* any(primID >= primsPerPage)
Spheres_anyPaged(primIDs) == \E l \in DOMAIN primIDs : primIDs[l] >= primsPerPage

Spheres_spherePtr(self, primIDs, l) ==
  IF Spheres_anyPaged(primIDs)
  THEN Spheres_spherePtr_paged(self, primIDs[l])
  ELSE Spheres_spherePtr_direct(self, primIDs[l])

\* the values lane l can return
Spheres_getMaterialID(self, primIDs, l) ==
  IF self.offset_materialID >= 0
  THEN Spheres_load(self, Spheres_spherePtr(self, primIDs, l) + self.offset_materialID)
  ELSE {self.materialID}

Strides == {16, 32, 36}

MaterialGeometries ==
  {[stride |-> s, offset_materialID |-> o, materialID |-> 9] : s \in Strides, o \in {-1, 12}}

PrimIDs ==
  {0, 1, primsPerPage - 2, primsPerPage - 1, primsPerPage, 2 * primsPerPage - 1,
   2 * primsPerPage + 1}

Gangs == [1..2 -> PrimIDs]

InitMaterial ==
  /\ arena = <<>>
  /\ res = NoCall
  /\ remap = NoRemap
  /\ volume = NoVolume
  /\ parallelFor = NoParallelFor
  /\ source = <<>> /\ voxelRange = NoRange /\ workers = <<>> /\ mutex = NoWorker
  /\ ray = NoRay
  /\ material = NoMaterialCall

Call_getMaterialID(self, primIDs) ==
  /\ material = NoMaterialCall
  /\ \E ids \in [DOMAIN primIDs -> UNION {Spheres_getMaterialID(self, primIDs, l) :
                                              l \in DOMAIN primIDs}] :
        /\ \A l \in DOMAIN primIDs : ids[l] \in Spheres_getMaterialID(self, primIDs, l)
        /\ material' = [kind |-> "call", self |-> self, primID |-> primIDs, materialID |-> ids]
  /\ UNCHANGED <<bsdfVars, floatVars, volumeVars, rangeVars, spheresVars>>

Return_getMaterialID ==
  /\ material # NoMaterialCall
  /\ material' = NoMaterialCall
  /\ UNCHANGED <<bsdfVars, floatVars, volumeVars, rangeVars, spheresVars>>

NextMaterial ==
  \/ \E self \in MaterialGeometries, primIDs \in Gangs : Call_getMaterialID(self, primIDs)
  \/ Return_getMaterialID

SpecMaterial == InitMaterial /\ [][NextMaterial]_vars

(***************************************************************************)
(* Properties.                                                             *)
(***************************************************************************)
IsLayer(n) == arena[n].kind = "MicrofacetSheenLayer"

IsThinDielectric(n) == arena[n].kind = "ThinDielectric"

IsVoid(sr) == le(reduce_max(sr.weight), Zero)

IsSpecular(sr) == sr.type \cap BSDF_SPECULAR # {}

CosThetaO == dot(res.wo, getN)

AboveHorizon == lt(Zero, CosThetaO)

\* the pick probability of the coat of layer n for the recorded wo
LayerRo(n) ==
  mul(MicrofacetSheenAlbedoTable_eval(CosThetaO, arena[n].roughness), arena[n].weight)

LayerRi(n, wi) ==
  mul(MicrofacetSheenAlbedoTable_eval(abs(dot(wi, getN)), arena[n].roughness), arena[n].weight)

\* C1: eval and sample of every model called with dot(wo, N) <= 0 return the
\* zero/void sentinel: eval a zero value with zero pdf, sample a weight whose
\* maximum channel is <= 0.
C1_HorizonRejection ==
  /\ (res.kind = "eval" /\ le(CosThetaO, Zero))
        => res.eval = make_BSDF_EvalRes_zero
  /\ (res.kind = "sample" /\ le(CosThetaO, Zero))
        => IsVoid(res.sample)

\* C2: for wo above the horizon, ThinDielectric sample returns the mirror
\* direction, specular reflection and weight (1,1,1) when u <= F, and otherwise
\* -wo, specular transmission and weight exp(attenuation / cosThetaT); pdf is
\* +inf in both outcomes, and a lossless slab gives weight (1,1,1) in both; with
\* eta = 3/2 at normal incidence u = 1/100 reflects and u = 1/2 transmits.
C2_ThinDielectricSample ==
  (res.kind = "sample" /\ IsThinDielectric(res.node) /\ AboveHorizon) =>
    LET self == arena[res.node]
        fr == fresnelDielectricEx(CosThetaO, self.eta)
        sr == res.sample
    IN  /\ sr.pdf = inf
        /\ IF le(res.ss, fr.F)
           THEN /\ sr.wi = <<negf(res.wo[1]), negf(res.wo[2]), res.wo[3]>>
                /\ sr.type = BSDF_SPECULAR_REFLECTION
                /\ sr.weight = make_vec3f(One)
           ELSE /\ sr.wi = neg(res.wo)
                /\ sr.type = BSDF_SPECULAR_TRANSMISSION
                /\ sr.weight = vexpf(vmul(self.attenuation, rcp(fr.cosThetaT)))
        /\ self.attenuation = make_vec3f(Zero) => sr.weight = make_vec3f(One)
        /\ (self.eta = Q(3, 2) /\ CosThetaO = One) =>
              /\ fr.F = Q(1, 25)
              /\ res.ss = Q(1, 100) => sr.type = BSDF_SPECULAR_REFLECTION
              /\ res.ss = Q(1, 2) => sr.type = BSDF_SPECULAR_TRANSMISSION

C2_Witness ==
  /\ res.kind = "sample" /\ IsThinDielectric(res.node) /\ AboveHorizon
  /\ res.sample.type = BSDF_SPECULAR_TRANSMISSION
  /\ arena[res.node].attenuation # make_vec3f(Zero)
  /\ CosThetaO # One
  /\ res.sample.weight # make_vec3f(One)

\* C3: when the layer's sample returns a non-specular direction wi with a
\* positive weight (coat branch or substrate branch; every substrate of the
\* model is itself sample/eval consistent), eval(wo, wi).pdf is the pdf sample
\* returned and eval(wo, wi).value / eval(wo, wi).pdf is the weight it returned.
C3_SampleEvalConsistency ==
  (/\ res.kind = "sample" /\ IsLayer(res.node)
   /\ ~IsSpecular(res.sample)
   /\ lt(Zero, reduce_max(res.sample.weight))) =>
    LET e == BSDF_eval(arena, res.node, res.wo, res.sample.wi)
    IN  /\ e.pdf = res.sample.pdf
        /\ vmul(e.value, rcp(e.pdf)) = res.sample.weight

C3_Witness ==
  /\ res.kind = "sample" /\ IsLayer(res.node)
  /\ res.path = "reflection" /\ "substrate_sample" \in res.terms
  /\ lt(Zero, LayerRo(res.node))
  /\ lt(Zero, reduce_max(res.sample.weight))
  /\ res.sample.pdf # uniformSampleHemispherePDF

\* two sample results agree: both void, or equal in wi, weight, pdf and type
SameSample(a, b) == IF IsVoid(a) \/ IsVoid(b) THEN IsVoid(a) /\ IsVoid(b) ELSE a = b

\* C4: with blend weight 0 the layer's eval returns what the substrate's eval
\* returns, and its sample returns what the substrate's sample returns for the
\* same arguments, for every wo, wi, uv and u.
C4_SubstratePassThrough ==
  /\ (res.kind = "eval" /\ IsLayer(res.node) /\ arena[res.node].weight = Zero)
        => res.eval = BSDF_eval(arena, arena[res.node].substrate, res.wo, res.wi)
  /\ (res.kind = "sample" /\ IsLayer(res.node) /\ arena[res.node].weight = Zero)
        => SameSample(res.sample,
                      BSDF_sample(arena, arena[res.node].substrate, res.wo, res.s, res.ss))

\* the scalar the layer hands to its substrate's sample
RemappedU(n) == mul(sub(res.ss, LayerRo(n)), rcp(sub(One, LayerRo(n))))

\* C5: when the layer delegates to the substrate and the substrate's sample is
\* void (maximum weight channel <= 0), the layer returns exactly that result,
\* with no Ri lookup, no attenuation T and no coat D or G2 evaluated.
C5_VoidPropagation ==
  (/\ res.kind = "sample" /\ IsLayer(res.node) /\ AboveHorizon
   /\ ~lt(res.ss, LayerRo(res.node))
   /\ IsVoid(BSDF_sample(arena, arena[res.node].substrate, res.wo, res.s, RemappedU(res.node)))) =>
    /\ res.sample = BSDF_sample(arena, arena[res.node].substrate, res.wo, res.s, RemappedU(res.node))
    /\ IsVoid(res.sample)
    /\ res.terms \cap {"Ri", "T", "D", "G2"} = {}

C5_Witness ==
  /\ res.kind = "sample" /\ IsLayer(res.node) /\ AboveHorizon
  /\ res.path = "void"
  /\ lt(Zero, LayerRo(res.node))
  /\ lt(Zero, dot(res.sample.wi, getN))
  /\ res.sample.pdf # Zero

\* C6: for wo and wi above the horizon the layer's eval returns value = coat
\* value + T * substrate value and pdf = Ro * coatPdf + (1 - Ro) * substratePdf,
\* with T = min(1 - Ro, 1 - Ri), Ro and Ri the table albedo at cosThetaO and
\* |cosThetaI| times the blend weight and coatPdf the uniform-hemisphere
\* density; sample picks the coat exactly with the same probability (u < Ro).
C6_EvalReflection ==
  (/\ res.kind = "eval" /\ IsLayer(res.node) /\ AboveHorizon
   /\ lt(Zero, dot(res.wi, getN))) =>
    LET self == arena[res.node]
        Ro == LayerRo(res.node)
        Ri == LayerRi(res.node, res.wi)
        T == IF lt(Ri, Ro) THEN sub(One, Ro) ELSE sub(One, Ri)
        sb == BSDF_eval(arena, self.substrate, res.wo, res.wi)
        coat == MicrofacetSheenLayer_coat(self, res.wo, res.wi, CosThetaO, dot(res.wi, getN))
    IN  /\ res.eval.value = vadd(coat.value, vmul(sb.value, T))
        /\ res.eval.pdf = add(mul(Ro, uniformSampleHemispherePDF), mul(sub(One, Ro), sb.pdf))
        /\ \A ss \in Samples1D :
              LET r == MicrofacetSheenLayer_sample(arena, self, res.wo, <<Zero, Q(4, 5)>>, ss)
              IN  ("substrate_eval" \in r.terms) <=> lt(ss, Ro)

C6_Witness ==
  /\ res.kind = "eval" /\ IsLayer(res.node) /\ AboveHorizon
  /\ lt(Zero, dot(res.wi, getN))
  /\ lt(LayerRo(res.node), LayerRi(res.node, res.wi))
  /\ lt(Zero, LayerRo(res.node))
  /\ BSDF_eval(arena, arena[res.node].substrate, res.wo, res.wi).pdf # Zero
  /\ lt(Zero, reduce_max(BSDF_eval(arena, arena[res.node].substrate, res.wo, res.wi).value))
  /\ res.eval.value # BSDF_eval(arena, arena[res.node].substrate, res.wo, res.wi).value

\* C7: for wo above the horizon and wi at or below it the layer's eval returns
\* only the substrate's contribution, with no coat term: the substrate's value
\* attenuated by T = min(1 - Ro, 1 - Ri), and the substrate's pdf scaled by
\* substratePickProb = 1 - Ro.
C7_EvalTransmission ==
  (/\ res.kind = "eval" /\ IsLayer(res.node) /\ AboveHorizon
   /\ le(dot(res.wi, getN), Zero)) =>
    LET self == arena[res.node]
        Ro == LayerRo(res.node)
        Ri == LayerRi(res.node, res.wi)
        T == IF lt(Ri, Ro) THEN sub(One, Ro) ELSE sub(One, Ri)
        sb == BSDF_eval(arena, self.substrate, res.wo, res.wi)
    IN  /\ res.eval.value = vmul(sb.value, T)
        /\ res.eval.pdf = mul(sub(One, Ro), sb.pdf)

C7_Witness ==
  /\ res.kind = "eval" /\ IsLayer(res.node) /\ AboveHorizon
  /\ lt(dot(res.wi, getN), Zero)
  /\ lt(Zero, LayerRo(res.node))
  /\ lt(Zero, res.eval.pdf)
  /\ lt(Zero, reduce_max(res.eval.value))

\* C8: every EvalResult returned by ThinDielectric eval and by the layer's eval
\* has pdf = 0 => value = 0, for every blend weight and table albedo in [0,1]
\* and every substrate whose own eval has the same property.
C8_ZeroPdfZeroValue ==
  (/\ res.kind = "eval"
   /\ (IsThinDielectric(res.node) \/ IsLayer(res.node))
   /\ IsLayer(res.node) =>
        LET sb == BSDF_eval(arena, arena[res.node].substrate, res.wo, res.wi)
        IN  sb.pdf = Zero => sb.value = make_vec3f(Zero)) =>
    (res.eval.pdf = Zero => res.eval.value = make_vec3f(Zero))

\* C9: in the layer's sample every reciprocal taken (of substratePickProb, of
\* the combined pdf, of 4*cosThetaO) has a nonzero argument, on every path.
C9_NoZeroReciprocal ==
  (res.kind = "sample" /\ IsLayer(res.node)) => \A r \in res.rcps : r # Zero

\* C10: ThinDielectric_getTransparency returns (1 - F) * A with the F and the
\* slab attenuation A = exp(attenuation / cosThetaT) that sample uses: for
\* cosThetaO >= 0, sample transmits exactly when u > F, and the transparency is
\* (1 - F) times the weight sample returns on transmission; F + (1 - F) = 1.
C10_Transparency ==
  (res.kind = "ThinDielectric_getTransparency" /\ le(Zero, res.cosThetaO)) =>
    LET fr == fresnelDielectricEx(res.cosThetaO, res.eta)
        self == ThinDielectric_Constructor(res.eta, res.attenuation)
    IN  /\ res.value = vmul(vexpf(vmul(res.attenuation, rcp(fr.cosThetaT))), sub(One, fr.F))
        /\ add(fr.F, sub(One, fr.F)) = One
        /\ \A wo \in Directions, ss \in Samples1D :
              dot(wo, getN) = res.cosThetaO =>
                LET sr == ThinDielectric_sample(self, wo, <<Zero, Zero>>, ss)
                IN  /\ (sr.type = BSDF_SPECULAR_TRANSMISSION) <=> lt(fr.F, ss)
                    /\ sr.type = BSDF_SPECULAR_TRANSMISSION
                          => res.value = vmul(sr.weight, sub(One, fr.F))

C10_Witness ==
  /\ res.kind = "ThinDielectric_getTransparency"
  /\ lt(Zero, res.cosThetaO) /\ lt(res.cosThetaO, One)
  /\ res.attenuation # make_vec3f(Zero)
  /\ LET fr == fresnelDielectricEx(res.cosThetaO, res.eta)
     IN  /\ lt(Zero, fr.F) /\ lt(fr.F, One)
         /\ fr.cosThetaT # One
         /\ \E wo \in Directions, ss \in Samples1D :
               /\ dot(wo, getN) = res.cosThetaO
               /\ ThinDielectric_sample(ThinDielectric_Constructor(res.eta, res.attenuation),
                                        wo, <<Zero, Zero>>, ss).type = BSDF_SPECULAR_TRANSMISSION
  /\ lt(Zero, reduce_max(res.value))

\* the substrate references of the live nodes of an arena: a layer refers to a
\* node allocated before it in the same arena, a leaf to none
ArenaLive(ar) ==
  \A n \in 1..Len(ar) :
    IF ar[n].kind = "MicrofacetSheenLayer"
    THEN ar[n].substrate \in 1..(n - 1)
    ELSE ar[n].substrate = NoNode

C12_RemappedScalar ==
  remap.kind = "remap" =>
    /\ remap.coat <=> lt(remap.ss, remap.Ro)
    /\ ~remap.coat =>
          /\ lt(Zero, remap.substratePickProb)
          /\ le(Zero, remap.ss1)
          /\ lt(remap.ss1, One)

\* C13: when the layer samples its substrate and the substrate returns a
\* specular lobe with positive weight, the layer returns the substrate's wi,
\* pdf and type unchanged and the weight substrate weight * T / (1 - Ro) with
\* T = min(1 - Ro, 1 - Ri); the weight is not multiplied by the infinite pdf
\* and neither D nor G2 of the coat is evaluated.
C13_SpecularSubstrate ==
  (/\ res.kind = "sample" /\ IsLayer(res.node) /\ AboveHorizon
   /\ ~lt(res.ss, LayerRo(res.node))
   /\ IsSpecular(BSDF_sample(arena, arena[res.node].substrate, res.wo, res.s, RemappedU(res.node)))
   /\ ~IsVoid(BSDF_sample(arena, arena[res.node].substrate, res.wo, res.s, RemappedU(res.node)))) =>
    LET sb == BSDF_sample(arena, arena[res.node].substrate, res.wo, res.s, RemappedU(res.node))
        Ro == LayerRo(res.node)
        Ri == LayerRi(res.node, sb.wi)
        T == IF lt(Ri, Ro) THEN sub(One, Ro) ELSE sub(One, Ri)
    IN  /\ res.sample.wi = sb.wi
        /\ res.sample.pdf = sb.pdf
        /\ res.sample.type = sb.type
        /\ res.sample.weight = vmul(vmul(sb.weight, T), rcp(sub(One, Ro)))
        /\ res.terms \cap {"D", "G2"} = {}

C13_Witness ==
  /\ res.kind = "sample" /\ IsLayer(res.node) /\ AboveHorizon
  /\ res.path = "specular"
  /\ res.sample.pdf = inf
  /\ lt(Zero, LayerRo(res.node))
  /\ res.sample.type = BSDF_SPECULAR_TRANSMISSION
  /\ res.sample.weight # make_vec3f(One)
  /\ lt(Zero, reduce_max(res.sample.weight))

C15_VoxelRange ==
  parallelFor.pc = "joined" =>
    /\ voxelRange = computeVoxelRange_loop(source, 0, Len(source), parallelFor.voxelRange)
    /\ \A i \in 1..Len(source) :
          voxelRange[1] <= source[i] /\ source[i] <= voxelRange[2]
    /\ voxelRange[1] <= parallelFor.voxelRange[1]
    /\ parallelFor.voxelRange[2] <= voxelRange[2]
    /\ Len(source) = 0 => voxelRange = parallelFor.voxelRange

C15_Witness ==
  /\ parallelFor.pc = "joined"
  /\ Len(workers) = 3
  /\ parallelFor.voxelRange = <<2, 5>>
  /\ voxelRange = <<1, 6>>
  /\ workers[1].myVoxelRange = <<6, 6>>
  /\ workers[3].myVoxelRange = <<1, 1>>

\* the workers between mutex.lock() and mutex.unlock(): those at an access to
\* the shared voxelRange or about to unlock
InCriticalSection(w) == workers[w].pc \in {"read_x", "write_x", "read_y", "write_y", "unlock"}

\* C16: a worker reads or writes the shared voxelRange only while it holds the
\* mutex, at most one worker holds it at a time, a worker that has finished
\* has released it and its minimum and maximum are in voxelRange (no
\* contribution is lost), and every worker terminates: the loop ends.
C16_MutexDiscipline ==
  /\ [](/\ \A w \in DOMAIN workers : InCriticalSection(w) <=> mutex = w
        /\ \A v, w \in DOMAIN workers :
              (InCriticalSection(v) /\ InCriticalSection(w)) => v = w
        /\ \A w \in DOMAIN workers :
              workers[w].pc = "done" =>
                /\ voxelRange[1] <= workers[w].myVoxelRange[1]
                /\ workers[w].myVoxelRange[2] <= voxelRange[2])
  /\ <>(parallelFor.pc = "joined" /\ mutex = NoWorker)

C16_Witness ==
  /\ parallelFor.pc = "parallel"
  /\ Len(workers) = 3
  /\ workers[1].pc = "lock"
  /\ workers[2].pc = "write_y"
  /\ workers[3].pc = "done"
  /\ mutex = 2

\* C17: a commit stops with 'invalid volume dimensions' exactly when the
\* dimensions parameter (default (0,0,0) when missing) has a component <= 0,
\* and then nothing has reached the ISPC side, gridSpacing is not assigned,
\* finish has not run and finished keeps its value: with no earlier commit the
\* accelerator is never built and finished stays false.
C17_InvalidDimensions ==
  [][(volume'.commitCalls = volume.commitCalls + 1) =>
       /\ (volume'.error = "invalid volume dimensions")
             <=> (reduce_min_i(getParam(volume, "dimensions", make_vec3i(0))) <= 0)
       /\ (volume'.error # "none") =>
             /\ volume'.ispc = volume.ispc
             /\ volume'.gridSpacing = volume.gridSpacing
             /\ volume'.finished = volume.finished
             /\ volume'.finishCalls = volume.finishCalls
             /\ volume'.params = volume.params
             /\ ~volume.finished =>
                   (~volume'.finished /\ volume'.ispc.accelerators = 0)]_vars

C17_Witness ==
  /\ volume.kind = "StructuredVolume"
  /\ volume.error = "invalid volume dimensions"
  /\ ~findParam(volume, "dimensions")
  /\ volume.gridOrigin = make_vec3f(One)
  /\ volume.ispc.gridOrigin = unassigned3f
  /\ ~volume.finished
  /\ volume.ispc.accelerators = 0

RayUnchanged(r0, r1) == [r1 EXCEPT !.call = r0.call] = r0

RayHitRecorded(r0, r1, p, t) ==
  /\ r1.t = t /\ lt(t, r0.t)
  /\ r1.primID = p /\ r1.geomID = r0.geometry.geomID

RayOccluded(r0, r1) == [r1 EXCEPT !.call = r0.call] = [r0 EXCEPT !.t = neg_inf]

RayHitRoot(r, roots) ==
  IF lt(roots.radical, Zero) THEN NaN
  ELSE IF lt(r.t0, roots.t_in) /\ lt(roots.t_in, r.t) THEN roots.t_in
  ELSE IF lt(add(r.t0, r.geometry.epsilon), roots.t_out) /\ lt(roots.t_out, r.t) THEN roots.t_out
  ELSE NaN

RayStep(r0, r1, root) ==
  /\ le(r1.t, r0.t)
  /\ (~r0.valid \/ IsNaN(root)) => RayUnchanged(r0, r1)
  /\ (r0.valid /\ ~IsNaN(root) /\ r1.call.fn = "Spheres_intersect") =>
        RayHitRecorded(r0, r1, r1.call.primID, root)
  /\ (r0.valid /\ ~IsNaN(root) /\ r1.call.fn = "Spheres_occluded") => RayOccluded(r0, r1)

RayIdentifiesHit(r, roots) ==
  /\ r.geomID = r.geometry.geomID
  /\ r.t \in {roots.t_in, roots.t_out, neg_inf}

\* C18: over any sequence of kernel calls on one ray, ray.t never increases; a
\* hit is recorded only for a root t_in with t0 < t_in < ray.t, or else a root
\* t_out with t0 + epsilon < t_out < ray.t; once a hit is recorded primID and
\* geomID name the sphere one of whose roots is ray.t; a miss or an inactive
\* lane leaves the ray unchanged, and Spheres_occluded on a hit sets ray.t to
\* -infinity and leaves primID, geomID, instID and Ng unchanged.
C18_RayNeverGrows ==
  [][(ray # NoRay /\ ray' # NoRay) =>
       /\ RayStep(ray, ray', RayHitRoot(ray, Spheres_solve(ray.geometry, ray'.call.primID, ray)))
       /\ ray'.primID # -1 =>
             RayIdentifiesHit(ray', Spheres_solve(ray'.geometry, ray'.primID, ray'))]_vars

C18_Witness ==
  /\ ray # NoRay /\ ray.valid
  /\ ray.call.fn = "Spheres_intersect" /\ ray.call.primID = 3 /\ ray.primID = 0
  /\ ray.org = <<Zero, Zero, Zero>> /\ ray.dir = <<Zero, Zero, One>>
  /\ ray.t = One
  /\ ray.geometry.epsilon = Q(1, 2)

C20_MaterialOfPrimitive ==
  material # NoMaterialCall =>
    \A l \in DOMAIN material.primID :
      material.materialID[l] =
        IF material.self.offset_materialID < 0
        THEN material.self.materialID
        ELSE StoredMaterialID(material.primID[l])

====
